---- MODULE Spec2Model ----
(***************************************************************************)
(* A model of ExcelHandler (src/src/excel_automation/excel_handler.py):    *)
(* instruction parsing, address validation, batch validation and the       *)
(* backup / mutate / confirm / commit-or-restore engine of apply_changes.  *)
(*                                                                         *)
(* Python strings are TLA+ strings; s[i] is SubSeq(s, i, i).  Python None  *)
(* is the empty sequence and a present value x is <<x>>.                   *)
(***************************************************************************)
EXTENDS Integers, Sequences, FiniteSets, TLC

(***************************************************************************)
(* Bounds of the model.                                                    *)
(***************************************************************************)
\* Number of apply_changes calls made on one handler.
MaxCalls == 2
\* Longest list of change lines handed to one call.
MaxBatch == 2
\* Ticks of the wall clock after the module was imported.
MaxClock == 1

(***************************************************************************)
(* String primitives (str methods and the regular expressions of the       *)
(* parser are built from these).                                           *)
(***************************************************************************)
None == <<>>
Some(x) == <<x>>

Ch(s, i) == SubSeq(s, i, i)

UpperChars == {"A","B","C","D","E","F","G","H","I","J","K","L","M",
               "N","O","P","Q","R","S","T","U","V","W","X","Y","Z"}
LowerChars == {"a","b","c","d","e","f","g","h","i","j","k","l","m",
               "n","o","p","q","r","s","t","u","v","w","x","y","z"}
DigitChars == {"0","1","2","3","4","5","6","7","8","9"}
AlphaChars == UpperChars \cup LowerChars
WordChars  == AlphaChars \cup DigitChars \cup {"_"}

\* str.isdigit() / str.isalpha(): non-empty and every character in the class.
AllIn(s, class) == Len(s) > 0 /\ \A i \in 1..Len(s) : Ch(s, i) \in class
isdigit(s) == AllIn(s, DigitChars)
isalpha(s) == AllIn(s, AlphaChars)

\* `sub in s`
StartsAt(s, i, sub) ==
    /\ i >= 1
    /\ i + Len(sub) - 1 <= Len(s)
    /\ SubSeq(s, i, i + Len(sub) - 1) = sub
Contains(s, sub) == \E i \in 1..(Len(s) + 1) : StartsAt(s, i, sub)

\* (Here and below, a local function `of` binds an argument that is used
\* many times, so that it is evaluated once.)
\* First index at or after i whose character is outside class (Len(s)+1 if
\* none): the end of a greedy  [class]*  started at i.
RunEnd(s, i, class) ==
    LET of[k \in Nat] == IF k <= Len(s) /\ Ch(s, k) \in class THEN of[k + 1] ELSE k
    IN  of[i]

\* int(digits) for a string of ASCII digits.
DigitVal(c) == CHOOSE d \in 0..9 : Ch("0123456789", d + 1) = c
RECURSIVE IntUpTo(_, _)
IntUpTo(s, k) == IF k = 0 THEN 0 ELSE 10 * IntUpTo(s, k - 1) + DigitVal(Ch(s, k))
int(s) == LET of[t \in STRING] == IntUpTo(t, Len(t)) IN of[s]

\* str(n) for n >= 0.
RECURSIVE str(_)
str(n) == IF n < 10 THEN Ch("0123456789", n + 1)
          ELSE str(n \div 10) \o Ch("0123456789", (n % 10) + 1)

\* s.split(sep): the pieces between the non-overlapping occurrences of sep,
\* scanned from the left.
RECURSIVE SplitFrom(_, _, _, _)
SplitFrom(s, sep, start, i) ==
    IF i + Len(sep) - 1 > Len(s) THEN << SubSeq(s, start, Len(s)) >>
    ELSE IF StartsAt(s, i, sep)
         THEN << SubSeq(s, start, i - 1) >>
                 \o SplitFrom(s, sep, i + Len(sep), i + Len(sep))
         ELSE SplitFrom(s, sep, start, i + 1)
split(s, sep) == SplitFrom(s, sep, 1, 1)
Last(seq) == seq[Len(seq)]

(***************************************************************************)
(* Regular expressions of the parser.  Each  M_x(s, i)  is the index just  *)
(* after the match of x anchored at i, or 0 when x does not match there.   *)
(* Every pattern used is deterministic under backtracking: a greedy class  *)
(* run is always followed by a character outside the class.                *)
(***************************************************************************)
\* [A-Z]+[0-9]+
M_cell(s, i) ==
    LET a == RunEnd(s, i, UpperChars)
        b == RunEnd(s, a, DigitChars)
    IN  IF a > i /\ b > a THEN b ELSE 0

\* [A-Z]+[0-9]+:[A-Z]+[0-9]+
M_range(s, i) ==
    LET a == M_cell(s, i)
    IN  IF a # 0 /\ StartsAt(s, a, ":") THEN M_cell(s, a + 1) ELSE 0

\* [A-Z]+[0-9]+(?::[A-Z]+[0-9]+)?
M_cell_or_range(s, i) ==
    LET a == M_cell(s, i)
    IN  IF a # 0 /\ M_range(s, i) # 0 THEN M_range(s, i) ELSE a

\* re.search: the leftmost anchor in 1..Len(s) at which M matches, or 0.
FirstMatch(s, M(_, _)) ==
    IF \E i \in 1..Len(s) : M(s, i) # 0
    THEN CHOOSE i \in 1..Len(s) :
             /\ M(s, i) # 0
             /\ \A j \in 1..(i - 1) : M(s, j) = 0
    ELSE 0

(***************************************************************************)
(* _parse_cell_reference                                                   *)
(***************************************************************************)
MAX_ROW == 1048576
MAX_COL_LEN == 3

Ok(v)     == [ok |-> TRUE,  val |-> v]
Raise(m)  == [ok |-> FALSE, err |-> m]

parse_cell_reference(ref) ==
    LET of[cell_ref \in STRING] ==
            IF Contains(cell_ref, ":")
            THEN Ok(split(cell_ref, ":"))
            ELSE IF isdigit(cell_ref)
            THEN IF int(cell_ref) < 1 \/ int(cell_ref) > MAX_ROW
                 THEN Raise("Invalid row number: " \o str(int(cell_ref)))
                 ELSE Ok(<<cell_ref, cell_ref>>)
            ELSE IF isalpha(cell_ref)
            THEN IF Len(cell_ref) > MAX_COL_LEN
                 THEN Raise("Invalid column reference: " \o cell_ref)
                 ELSE Ok(<<cell_ref, cell_ref>>)
            ELSE LET e == M_cell(cell_ref, 1)
                     a == RunEnd(cell_ref, 1, UpperChars)
                     col == SubSeq(cell_ref, 1, a - 1)
                     row == SubSeq(cell_ref, a, e - 1)
                 IN  IF e = 0
                     THEN Raise("Invalid cell reference format: " \o cell_ref)
                     ELSE IF Len(col) > MAX_COL_LEN
                     THEN Raise("Invalid column reference: " \o col)
                     ELSE IF int(row) < 1 \/ int(row) > MAX_ROW
                     THEN Raise("Invalid row number: " \o str(int(row)))
                     ELSE Ok(<<col, row>>)
    IN  of[ref]

(***************************************************************************)
(* ExcelChange and _convert_value                                          *)
(***************************************************************************)
\* The value payloads (typing.Any in the source), tagged by Python type.
VNone      == [t |-> "None"]
VStr(s)    == [t |-> "str", s |-> s]
VFloat(s)  == [t |-> "float", f |-> s]
VInt(n)    == [t |-> "int", n |-> n]
VBold      == [t |-> "dict", bold |-> TRUE]

\* Line 39: the default of `timestamp` is the datetime.now() evaluated when
\* the class statement ran, on import of the module.
ImportTime == 0
\* ExcelChange(operation, target, value): status "pending", error None and
\* the default timestamp.
ExcelChange(operation, target, value) ==
    [operation |-> operation, target |-> target, value |-> value,
     status |-> "pending", error |-> None, timestamp |-> ImportTime]

\* The strings float() accepts: surrounding blanks, a sign, then inf /
\* infinity / nan (any case is not modelled: lower case only) or a decimal
\* literal  digits[.digits][e[+-]digits]  or  .digits[e[+-]digits] ; digits
\* may be grouped by single underscores.
RECURSIVE DigitPartEnd(_, _)
DigitPartEnd(s, i) ==
    IF i <= Len(s) /\ Ch(s, i) \in DigitChars
    THEN IF i + 2 <= Len(s) /\ Ch(s, i + 1) = "_" /\ Ch(s, i + 2) \in DigitChars
         THEN DigitPartEnd(s, i + 2)
         ELSE IF i + 1 <= Len(s) /\ Ch(s, i + 1) \in DigitChars
         THEN DigitPartEnd(s, i + 1)
         ELSE i + 1
    ELSE i
ExponentEnd(s, i) ==
    IF i <= Len(s) /\ Ch(s, i) \in {"e", "E"}
    THEN LET j == IF i + 1 <= Len(s) /\ Ch(s, i + 1) \in {"+", "-"}
                  THEN i + 2 ELSE i + 1
             k == DigitPartEnd(s, j)
         IN  IF k > j THEN k ELSE 0
    ELSE i
DecimalEnd(s, i) ==
    LET a == DigitPartEnd(s, i)
        dot == a <= Len(s) /\ Ch(s, a) = "."
        b == IF dot THEN DigitPartEnd(s, a + 1) ELSE a
    IN  IF a = i /\ (~dot \/ b = a + 1) THEN 0 ELSE ExponentEnd(s, b)
RECURSIVE strip(_)
strip(s) ==
    IF Len(s) > 0 /\ Ch(s, 1) = " " THEN strip(SubSeq(s, 2, Len(s)))
    ELSE IF Len(s) > 0 /\ Ch(s, Len(s)) = " " THEN strip(SubSeq(s, 1, Len(s) - 1))
    ELSE s
IsFloatLiteral(value) ==
    LET v == strip(value)
        u == IF Len(v) > 0 /\ Ch(v, 1) \in {"+", "-"} THEN SubSeq(v, 2, Len(v)) ELSE v
    IN  \/ u \in {"inf", "infinity", "nan"}
        \/ Len(u) > 0 /\ DecimalEnd(u, 1) = Len(u) + 1

convert_value(value) ==
    LET of[v \in STRING] == IF IsFloatLiteral(v) THEN VFloat(v) ELSE VStr(v)
    IN  of[value]

(***************************************************************************)
(* _parse_change_instruction                                               *)
(***************************************************************************)
\* A literal followed by a sub-pattern.
LitThen(s, i, lit, M(_, _)) ==
    IF StartsAt(s, i, lit) THEN M(s, i + Len(lit)) ELSE 0
Then(e, s, lit) == IF e # 0 /\ StartsAt(s, e, lit) THEN e + Len(lit) ELSE 0
M_upper(s, i)  == LET a == RunEnd(s, i, UpperChars) IN IF a > i THEN a ELSE 0
M_digits(s, i) == LET a == RunEnd(s, i, DigitChars) IN IF a > i THEN a ELSE 0
M_word(s, i)   == LET a == RunEnd(s, i, WordChars)  IN IF a > i THEN a ELSE 0

\* Set ([A-Z]+[0-9]+(?::[A-Z]+[0-9]+)?) formula to
M_set_formula(s, i) ==
    Then(LitThen(s, i, "Set ", M_cell_or_range), s, " formula to")
\* to ([A-Z]+[0-9]+)
M_to_cell(s, i)    == LitThen(s, i, "to ", M_cell)
\* column ([A-Z]+)
M_column(s, i)     == LitThen(s, i, "column ", M_upper)
\* to (\d+)
M_to_digits(s, i)  == LitThen(s, i, "to ", M_digits)
\* position (\d+)
M_position(s, i)   == LitThen(s, i, "position ", M_digits)
\* range (\w+) for ([A-Z]+[0-9]+:[A-Z]+[0-9]+)
M_named(s, i) ==
    LET w == LitThen(s, i, "range ", M_word)
        f == Then(w, s, " for ")
    IN  IF f # 0 THEN M_range(s, f) ELSE 0

\* .group(1) of a search whose group starts `skip` characters into the match
\* and runs to the end of the sub-pattern G anchored there.
Group(s, i, skip, G(_, _)) ==
    LET of[k \in Nat] == SubSeq(s, k, G(s, k) - 1) IN of[i + skip]

Returns(c) == [r |-> "return", change |-> c]
Raises(m)   == [r |-> "raise", msg |-> m]
NoneMatchGroup == Raises("'NoneType' object has no attribute 'group'")

\* The body of the try block: what it returns, or the exception it raises.
parse_body(change) ==
    LET cellAt  == FirstMatch(change, M_cell)
        rangeAt == FirstMatch(change, M_range)
        range_ref == Group(change, rangeAt, 0, M_range)
    IN
    IF Contains(change, "Update cell")
    THEN IF cellAt = 0 THEN Returns(None)
         ELSE Returns(Some(ExcelChange("update",
                  Group(change, cellAt, 0, M_cell),
                  convert_value(Last(split(change, " to "))))))
    ELSE IF Contains(change, "Format") /\ Contains(change, "as header")
    THEN IF rangeAt = 0 THEN NoneMatchGroup
         ELSE Returns(Some(ExcelChange("format", range_ref, VBold)))
    ELSE IF Contains(change, "Set") /\ Contains(change, "number format")
    THEN IF rangeAt = 0 THEN NoneMatchGroup
         ELSE Returns(Some(ExcelChange("number_format", range_ref,
                  IF Contains(change, "currency") THEN VStr("currency") ELSE VNone)))
    ELSE IF Contains(change, "Set") /\ Contains(change, "formula")
    THEN LET at == FirstMatch(change, M_set_formula)
         IN  IF at = 0 THEN NoneMatchGroup
             ELSE Returns(Some(ExcelChange("formula",
                      Group(change, at, 4, M_cell_or_range),
                      VStr(Last(split(change, " to "))))))
    ELSE IF Contains(change, "Copy range")
    THEN LET at == FirstMatch(change, M_to_cell)
         IN  IF rangeAt = 0 \/ at = 0 THEN NoneMatchGroup
             ELSE Returns(Some(ExcelChange("copy",
                      range_ref \o " to " \o Group(change, at, 3, M_cell), VNone)))
    ELSE IF Contains(change, "Set column") /\ Contains(change, "width")
    THEN LET c == FirstMatch(change, M_column)
             w == FirstMatch(change, M_to_digits)
             column == Group(change, c, 7, M_upper)
         IN  IF c = 0 \/ w = 0 THEN NoneMatchGroup
             ELSE Returns(Some(ExcelChange("column_width",
                      column \o ":" \o column,
                      VInt(int(Group(change, w, 3, M_digits))))))
    ELSE IF Contains(change, "Clear contents")
    THEN IF rangeAt = 0 THEN NoneMatchGroup
         ELSE Returns(Some(ExcelChange("clear", range_ref, VNone)))
    ELSE IF Contains(change, "Insert row")
    THEN LET at == FirstMatch(change, M_position)
             position == Group(change, at, 9, M_digits)
         IN  IF at = 0 THEN NoneMatchGroup
             ELSE Returns(Some(ExcelChange("insert_row",
                      position \o ":" \o position, VNone)))
    ELSE IF Contains(change, "Delete column")
    THEN LET at == FirstMatch(change, M_column)
             column == Group(change, at, 7, M_upper)
         IN  IF at = 0 THEN NoneMatchGroup
             ELSE Returns(Some(ExcelChange("delete_column",
                      column \o ":" \o column, VNone)))
    ELSE IF Contains(change, "Create named range")
    THEN LET at == FirstMatch(change, M_named)
             w  == M_word(change, at + 6)
         IN  IF at = 0 THEN Raises("Invalid named range format: " \o change)
             ELSE Returns(Some(ExcelChange("named_range",
                      Group(change, w + 5, 0, M_range),
                      VStr(SubSeq(change, at + 6, w - 1)))))
    ELSE Returns(None)

\* Lines 508-510: `except Exception` turns whatever the body raises into
\* `return None`.
propagate(b) == b
except_Exception(b) == IF b.r = "return" THEN b ELSE Returns(None)

\* try: <body>  except Exception: return None, as the caller sees it.
call_parse_change_instruction(change) == except_Exception(parse_body(change))
parse_change_instruction(change) ==
    LET b == call_parse_change_instruction(change)
    IN  IF b.r = "return" THEN b.change ELSE None

(***************************************************************************)
(* validate_changes: one loop iteration is split at the point where the    *)
(* parsed ExcelChange exists with status "pending".                        *)
(***************************************************************************)
\* Lines 176-194: the address checks of one parsed change.  The result is
\* Ok or the ValueError raised (a failed tuple unpacking is a ValueError too).
Unpack2 == Raise("too many values to unpack (expected 2)")
validate_target(t) ==
    LET of[target \in STRING] ==
            IF Contains(target, ":")
            THEN IF Contains(target, " to ")
                 THEN LET parts == split(target, " to ")
                          r1 == parse_cell_reference(split(parts[1], ":")[1])
                      IN  IF Len(parts) # 2 THEN Unpack2
                          ELSE IF ~r1.ok THEN r1
                          ELSE parse_cell_reference(parts[2])
                 ELSE LET parts == split(target, ":")
                          r1 == parse_cell_reference(parts[1])
                      IN  IF Len(parts) # 2 THEN Unpack2
                          ELSE IF ~r1.ok THEN r1
                          ELSE parse_cell_reference(parts[2])
            ELSE parse_cell_reference(target)
    IN  of[t]

\* Lines 176-194: the status the checks give the change.
check_change_swallow(excel_change) ==
    LET r == validate_target(excel_change.target)
    IN  IF r.ok THEN [excel_change EXCEPT !.status = "valid"] ELSE excel_change
check_change_silent(excel_change) ==
    LET r == validate_target(excel_change.target)
    IN  IF r.ok THEN [excel_change EXCEPT !.status = "valid"]
        ELSE [excel_change EXCEPT !.status = "error"]
check_change(excel_change) ==
    LET r == validate_target(excel_change.target)
    IN  IF r.ok THEN [excel_change EXCEPT !.status = "valid"]
        ELSE [excel_change EXCEPT !.status = "error", !.error = Some(r.err)]

\* Lines 197-203: the change recorded for a line the parser returns None for.
invalid_instruction ==
    [operation |-> "update", target |-> "", value |-> VStr(""),
     status |-> "error", error |-> Some("Invalid instruction format"),
     timestamp |-> ImportTime]

\* Lines 169-205: the change one iteration of the loop appends.
validate_line(change) ==
    LET excel_change == parse_change_instruction(change)
    IN  IF excel_change = None THEN invalid_instruction
        ELSE check_change(excel_change[1])

\* Lines 195-205: a line that does not parse is recorded, not left out.
skip_invalid(validated_changes) == validated_changes
record_invalid(validated_changes) ==
    Append(validated_changes, invalid_instruction)

\* Line 238
any_valid(validated_changes) ==
    \E k \in 1..Len(validated_changes) : validated_changes[k].status = "valid"
all_valid(validated_changes) ==
    \A k \in 1..Len(validated_changes) : validated_changes[k].status = "valid"

(***************************************************************************)
(* The handler, its workbook and the two files.                            *)
(*                                                                         *)
(* A document is the sequence of mutations made to it since the workbook   *)
(* was first opened; a mutation is <<call, index>>: the call of            *)
(* apply_changes and the position in its batch of the change that made it. *)
(***************************************************************************)
VARIABLES
    workbook,        \* self.workbook: "open", "closed" (a handle whose book
                     \* was closed: every use raises) or "None"
    active_sheet,    \* self.active_sheet: "current" or "stale"
    live,            \* contents of the open workbook in the application
    disk,            \* the workbook's file: None, or Some(contents)
    backup_file,     \* output/backups/current_backup.xlsx: None or Some(..)
    backup_path,     \* self._backup_path is set
    dry_run,         \* self.dry_run
    change_history,  \* self.change_history
    pc,              \* position inside apply_changes, "idle" outside
    callNo,          \* number of apply_changes calls started
    changes,         \* instructions.get('required_changes', [])
    validated,       \* validated_changes
    n,               \* number of lines validate_changes has taken
    cur,             \* excel_change of the line being validated
    i,               \* number of changes _apply_validated_changes has taken
    response,        \* None, or Some(what the human typed at the prompt)
    result,          \* None, or Some(the value the last call returned)
    events,          \* what the current call has done so far, in order
    pre,             \* the handler and change_history when the call began
    restored,        \* None, or Some(what the restore_from_backup just made
                     \* outside apply_changes returned, and on what handler)
    text,            \* the string handed to the parser or the validator
    out,             \* None, or Some(what it made of text)
    now              \* the wall clock: what datetime.now() returns

handler == <<workbook, active_sheet, live, disk, backup_file, backup_path>>
call    == <<callNo, changes, pre, restored>>
loops   == <<validated, n, cur, i>>
fixed   == <<dry_run, text, out, now>>
vars    == <<handler, fixed, change_history, pc, call, loops, response,
             result, events>>

H == [workbook |-> workbook, active_sheet |-> active_sheet, live |-> live,
      disk |-> disk, backup_file |-> backup_file, backup_path |-> backup_path]
SetH(h) ==
    /\ workbook' = h.workbook
    /\ active_sheet' = h.active_sheet
    /\ live' = h.live
    /\ disk' = h.disk
    /\ backup_file' = h.backup_file
    /\ backup_path' = h.backup_path

\* What a helper method does: the handler afterwards, the value returned
\* and the events, for each way the file system and application can answer.
Out(h, ret, ev) == [h |-> h, ret |-> ret, ev |-> ev]

(***************************************************************************)
(* create_backup                                                           *)
(***************************************************************************)
create_backup(h) ==
    IF h.workbook = "None" THEN { Out(h, FALSE, <<"backup">>) }
    ELSE IF h.workbook = "closed"
    THEN { Out(h, FALSE, <<"backup">>) }           \* fullname raises
    ELSE LET saved == [h EXCEPT !.disk = Some(h.live)]
         IN  { Out(h, FALSE, <<"backup">>),                  \* save raises
               Out(saved, FALSE, <<"backup", "save">>),      \* copy2 raises
               Out([saved EXCEPT !.backup_file = saved.disk,
                                 !.backup_path = TRUE],
                   TRUE, <<"backup", "save", "copy_backup">>) }

(***************************************************************************)
(* restore_from_backup                                                     *)
(***************************************************************************)
\* Line 520: close() discards what was not saved.
close_saving(h) ==
    [h EXCEPT !.workbook = "closed", !.disk = Some(h.live), !.live = <<>>,
              !.active_sheet = "stale"]
close(h) ==
    [h EXCEPT !.workbook = "closed", !.live = <<>>, !.active_sheet = "stale"]

\* Lines 523-524: os.remove(current_file), what the file is afterwards.
remove_nothing(file) == file
remove(file) == None

\* Line 528: shutil.copy2(backup_path, current_file), what current_file holds
\* afterwards.
copy2_empty(src, dst) == Some(<<>>)
copy2(src, dst) == src

restore_from_backup(h) ==
    IF ~(h.backup_path /\ h.backup_file # None)
    THEN { Out(h, FALSE, <<"restore">>) }
    ELSE IF h.workbook # "open"
    THEN { Out(h, FALSE, <<"restore">>) }          \* fullname raises
    ELSE LET closed  == close(h)
             removed == [closed EXCEPT !.disk = remove(closed.disk)]
             copied  == [removed EXCEPT
                            !.disk = copy2(h.backup_file, removed.disk)]
             opened  == [copied EXCEPT !.workbook = "open",
                                       !.live = copied.disk[1],
                                       !.active_sheet = "current"]
         IN  { Out(h, FALSE, <<"restore", "close_raised">>), \* close raises
               Out(closed, FALSE, <<"restore", "close">>),   \* remove raises
               Out(removed, FALSE, <<"restore", "close", "remove">>),
                                                             \* copy2 raises
               Out(copied, FALSE,
                   <<"restore", "close", "remove", "copy">>),  \* open raises
               Out(opened, TRUE,
                   <<"restore", "close", "remove", "copy", "open">>) }

(***************************************************************************)
(* apply_changes                                                           *)
(***************************************************************************)
\* The change lines the model hands to apply_changes: one that writes a
\* cell, one that is valid and alters nothing (a number format other than
\* currency), one whose address is out of bounds, one that does not parse.
Lines == { "Update cell A1 to 7",
           "Set A2:A5 number format to percent",
           "Update cell ZZ99999999 to Revenue",
           "Invalid instruction format" }
RECURSIVE SeqsUpTo(_, _)
SeqsUpTo(S, m) ==
    IF m = 0 THEN { <<>> }
    ELSE LET shorter == SeqsUpTo(S, m - 1)
         IN  shorter \cup { Append(q, e) : q \in shorter, e \in S }
\* instructions: None when the dict has no 'required_changes' key.
Instructions == { None } \cup { Some(b) : b \in SeqsUpTo(Lines, MaxBatch) }
required_changes(instructions) ==
    IF instructions = None THEN <<>> ELSE instructions[1]

\* What the human types at the prompt.
Answers == { "y", "Y", "yes", "n", "" }
lower(s) == IF s = "Y" THEN "y" ELSE s

Init ==
    /\ workbook = "open"
    /\ active_sheet = "current"
    /\ live = <<>>
    /\ disk = Some(<<>>)
    /\ backup_file = None
    /\ backup_path = FALSE
    /\ dry_run \in BOOLEAN
    /\ change_history = <<>>
    /\ pc = "idle"
    /\ callNo = 0
    /\ changes = <<>>
    /\ validated = <<>>
    /\ n = 0
    /\ cur = None
    /\ i = 0
    /\ response = None
    /\ result = None
    /\ events = <<>>
    /\ pre = [handler |-> H, change_history |-> <<>>]
    /\ restored = None
    /\ text = ""
    /\ out = None
    /\ now = ImportTime

Return(v) == result' = Some(v) /\ pc' = "idle"

\* Line 283: `if self._backup_path`
not_recorded(p) == FALSE
recorded(p) == p

\* Lines 281-286: the handler of an exception caught by apply_changes, after
\* the events `done`.
OnExceptionAfter(done, ev) ==
    /\ IF recorded(backup_path)
       THEN \E o \in restore_from_backup(H) :
                SetH(o.h) /\ events' = done \o ev \o o.ev
       ELSE UNCHANGED handler /\ events' = done \o ev
    /\ Return(FALSE)
OnException(ev) == OnExceptionAfter(events, ev)

\* Line 224: `if not changes`
never(cs) == FALSE
no_changes(cs) == cs = <<>>

\* Lines 222-231
ApplyStart(instructions) ==
    /\ pc = "idle"
    /\ callNo < MaxCalls
    /\ callNo' = callNo + 1
    /\ changes' = required_changes(instructions)
    /\ pre' = [handler |-> H, change_history |-> change_history]
    /\ restored' = None
    /\ validated' = <<>>
    /\ n' = 0
    /\ cur' = None
    /\ i' = 0
    /\ response' = None
    /\ UNCHANGED <<fixed, change_history>>
    /\ IF no_changes(changes')
       THEN Return(TRUE) /\ events' = <<>> /\ UNCHANGED handler
       ELSE IF workbook # "open"           \* self.workbook.fullname raises
       THEN OnExceptionAfter(<<>>, <<"raise">>)
       ELSE /\ result' = None
            /\ events' = <<>>
            /\ pc' = IF disk # None THEN "backup" ELSE "validate"
            /\ UNCHANGED handler

\* Line 232: `if not self.create_backup()`
ignored(ret) == TRUE
backup_made(ret) == ret

\* Lines 231-234
PreBackup ==
    /\ pc = "backup"
    /\ \E o \in create_backup(H) :
          /\ SetH(o.h)
          /\ events' = events \o o.ev
          /\ IF backup_made(o.ret) THEN pc' = "validate" /\ UNCHANGED result
             ELSE Return(FALSE)
    /\ UNCHANGED <<fixed, change_history, call, loops, response>>

\* Line 169: `for change in changes` has taken every line.
exhausted_never(k, lines) == FALSE
exhausted(k, lines) == k >= Len(lines)

\* Lines 169-174 and 195-205: parse the next line.
ValidateParse ==
    /\ pc = "validate"
    /\ n < Len(changes)
    /\ n' = n + 1
    /\ LET excel_change == parse_change_instruction(changes[n + 1])
       IN  IF excel_change = None
           THEN /\ validated' = record_invalid(validated)
                /\ UNCHANGED <<cur, pc>>
           ELSE /\ cur' = excel_change
                /\ pc' = "check"
                /\ UNCHANGED validated
    /\ events' = events \o <<"validate">>
    /\ UNCHANGED <<handler, fixed, change_history, call, i, response, result>>

\* Lines 176-194 and 205: check the addresses of the parsed change.
ValidateCheck ==
    /\ pc = "check"
    /\ validated' = Append(validated, check_change(cur[1]))
    /\ cur' = None
    /\ pc' = "validate"
    /\ UNCHANGED <<handler, fixed, change_history, call, n, i, response,
                   result, events>>

\* Line 246: `if not self.dry_run`
execute_always(d) == TRUE
execute(d) == ~d

\* Lines 238-246 and 274-279: after validate_changes has returned.
Gate ==
    /\ pc = "validate"
    /\ exhausted(n, changes)
    /\ IF ~all_valid(validated) THEN Return(FALSE) /\ UNCHANGED events
       ELSE IF ~execute(dry_run) THEN Return(TRUE) /\ UNCHANGED events
       ELSE /\ pc' = IF Len(validated) = 0 THEN "prompt" ELSE "apply"
            /\ events' = events \o <<"apply">>
            /\ UNCHANGED result
    /\ UNCHANGED <<handler, fixed, change_history, call, loops, response>>

\* A call the apply loop makes on the sheet or the workbook.
Call(fn, args) == [fn |-> fn, args |-> args]

\* Line 325: the reference handed to names.add.
relative_ref(start, end) ==
    start[1] \o start[2] \o ":" \o end[1] \o end[2]
absolute_ref(start, end) ==
    "$" \o start[1] \o "$" \o start[2] \o ":$" \o end[1] \o "$" \o end[2]

\* Lines 292-328: the calls one iteration of the loop makes for the change,
\* in order; a last call "raise" when the iteration raises.
apply_calls(change) ==
    IF change.operation = "copy"
    THEN LET parts == split(change.target, " to ")
         IN  IF Len(parts) # 2 THEN << Call("raise", <<>>) >>
             ELSE << Call("range", <<parts[1]>>), Call("range", <<parts[2]>>),
                     Call("copy", <<parts[1], parts[2]>>) >>
    ELSE << Call("range", <<change.target>>) >> \o
         CASE change.operation = "update" ->
                  << Call("value", <<change.target, change.value>>) >>
           [] change.operation = "formula" ->
                  << Call("formula", <<change.target, change.value>>) >>
           [] change.operation = "format" ->
                  << Call("font.bold", <<change.target, TRUE>>) >>
           [] change.operation = "number_format" ->
                  IF change.value = VStr("currency")
                  THEN << Call("number_format", <<change.target, "$#,##0.00">>) >>
                  ELSE <<>>
           [] change.operation = "column_width" ->
                  << Call("column_width", <<change.target, change.value>>) >>
           [] change.operation = "clear" ->
                  << Call("clear_contents", <<change.target>>) >>
           [] change.operation = "insert_row" ->
                  << Call("Rows.Insert", <<int(split(change.target, ":")[1])>>) >>
           [] change.operation = "delete_column" ->
                  << Call("Columns.Delete", <<split(change.target, ":")[1]>>) >>
           [] change.operation = "named_range" ->
                  LET parts == split(change.target, ":")
                      start == parse_cell_reference(parts[1])
                      end   == parse_cell_reference(parts[2])
                  IN  IF Len(parts) # 2 \/ ~start.ok \/ ~end.ok
                      THEN << Call("raise", <<>>) >>
                      ELSE << Call("names.add",
                                   <<change.value.s,
                                     "=Sheet1!" \o absolute_ref(start.val, end.val)>>) >>

\* Lines 292-328: whether the change alters the workbook.
mutates(change) ==
    ~(change.operation = "number_format" /\ change.value # VStr("currency"))

\* Line 291: the change the loop takes in its k-th iteration, of m.
backwards(m, k) == m - k + 1
in_order(m, k) == k

\* Line 331: self.change_history.append(change)
forget(history, change) == history
append(history, change) == Append(history, change)

\* Lines 291-331: one iteration of the loop that succeeds.
ApplyOp ==
    /\ pc = "apply"
    /\ LET k == in_order(Len(validated), i + 1)
           change == validated[k]
       IN  /\ live' = IF mutates(change) THEN Append(live, <<callNo, k>>)
                      ELSE live
           /\ validated' = [validated EXCEPT ![k].status = "applied"]
           /\ change_history' =
                  append(change_history,
                         [call |-> callNo, idx |-> k, status |-> "applied"])
           /\ events' = events \o
                  (IF change.operation = "copy" THEN <<"range", "range">>
                   ELSE <<"range">>)
                  \o (IF mutates(change) THEN <<"mutate">> ELSE <<>>)
    /\ i' = i + 1
    /\ pc' = IF i + 1 = Len(validated) THEN "prompt" ELSE "apply"
    /\ UNCHANGED <<workbook, active_sheet, disk, backup_file, backup_path,
                   fixed, call, n, cur, response, result>>

\* Line 250: `if self._backup_path`
no_backup(p) == FALSE
has_backup(p) == p

\* Lines 335-337 and 248-253: the change raises.
ApplyOpRaises ==
    /\ pc = "apply"
    /\ IF has_backup(backup_path)
       THEN \E o \in restore_from_backup(H) :
                SetH(o.h) /\ events' = events \o <<"raise">> \o o.ev
       ELSE UNCHANGED handler /\ events' = events \o <<"raise">>
    /\ Return(FALSE)
    /\ UNCHANGED <<fixed, change_history, call, loops, response>>

\* Line 257: `response != 'y'` of the lower-cased answer.
not_refused(answer) == lower(answer) # "n"
accepted(answer) == lower(answer) = "y"

\* Lines 256-262: the human answers the prompt.
Answer(answer) ==
    /\ pc = "prompt"
    /\ response' = Some(answer)
    /\ IF accepted(answer)
       THEN /\ pc' = "commit"
            /\ events' = events \o <<"prompt", "accept">>
            /\ UNCHANGED <<handler, result>>
       ELSE /\ \E o \in restore_from_backup(H) :
                   SetH(o.h) /\ events' = events \o <<"prompt", "reject">> \o o.ev
            /\ Return(FALSE)
    /\ UNCHANGED <<fixed, change_history, call, loops>>

\* Line 256: input() raises EOFError.
PromptRaises ==
    /\ pc = "prompt"
    /\ OnException(<<"prompt", "raise">>)
    /\ UNCHANGED <<fixed, change_history, call, loops, response>>

\* Line 265: self.workbook.save() succeeds.
Commit ==
    /\ pc = "commit"
    /\ disk' = Some(live)
    /\ events' = events \o <<"commit">>
    /\ pc' = "post_backup"
    /\ UNCHANGED <<workbook, active_sheet, live, backup_file, backup_path,
                   fixed, change_history, call, loops, response, result>>

\* Line 265: self.workbook.save() raises.
CommitRaises ==
    /\ pc = "commit"
    /\ OnException(<<"raise">>)
    /\ UNCHANGED <<fixed, change_history, call, loops, response>>

\* Line 270: `if not self.create_backup()` after the commit.
warn_only(ret) == TRUE
approved_backup(ret) == ret

\* Lines 269-272 and 279
PostBackup ==
    /\ pc = "post_backup"
    /\ \E o \in create_backup(H) :
          /\ SetH(o.h)
          /\ events' = events \o o.ev
          /\ Return(approved_backup(o.ret))
    /\ UNCHANGED <<fixed, change_history, call, loops, response>>

(***************************************************************************)
(* The other public calls made between apply_changes calls.                *)
(***************************************************************************)
\* Outside a call nothing is left of the locals of apply_changes or of what
\* it returned.
NoCall ==
    /\ changes' = <<>>
    /\ validated' = <<>>
    /\ n' = 0
    /\ cur' = None
    /\ i' = 0
    /\ response' = None
    /\ result' = None
    /\ events' = <<>>
    /\ pre' = [handler |-> [workbook |-> "open", active_sheet |-> "current",
                            live |-> <<>>, disk |-> Some(<<>>),
                            backup_file |-> None, backup_path |-> FALSE],
               change_history |-> change_history]
    /\ UNCHANGED <<fixed, change_history, pc, callNo>>

\* Lines 131-152
CreateBackup ==
    /\ pc = "idle"
    /\ \E o \in create_backup(H) : SetH(o.h)
    /\ restored' = None
    /\ NoCall

\* Lines 154-163
Cleanup ==
    /\ pc = "idle"
    /\ workbook # "None"
    /\ \E o \in create_backup(H) :
          SetH(IF o.h.workbook = "open"
               THEN [close(o.h) EXCEPT !.workbook = "None"]
               ELSE o.h)                          \* close() raises
    /\ restored' = None
    /\ NoCall

\* Lines 512-540: restore_from_backup called by the handler's owner.
RestoreFromBackup ==
    /\ pc = "idle"
    /\ \E o \in restore_from_backup(H) :
          /\ SetH(o.h)
          /\ restored' = Some([ret |-> o.ret, ev |-> o.ev, h |-> H])
    /\ NoCall

\* Line 515 (`os.path.exists(self._backup_path)`): somebody else deletes
\* output/backups/current_backup.xlsx, which no application holds open.
RemoveBackupFile ==
    /\ pc = "idle"
    /\ backup_file # None
    /\ backup_file' = None
    /\ restored' = None
    /\ NoCall
    /\ UNCHANGED <<workbook, active_sheet, live, disk, backup_path>>

Next ==
    \/ \E instructions \in Instructions : ApplyStart(instructions)
    \/ PreBackup
    \/ ValidateParse
    \/ ValidateCheck
    \/ Gate
    \/ ApplyOp
    \/ ApplyOpRaises
    \/ \E answer \in Answers : Answer(answer)
    \/ PromptRaises
    \/ Commit
    \/ CommitRaises
    \/ PostBackup
    \/ CreateBackup
    \/ Cleanup
    \/ RestoreFromBackup
    \/ RemoveBackupFile

Spec == Init /\ [][Next]_vars

\* The thread inside apply_changes keeps running: every step but the
\* prompt, which waits for the human, is taken once it can be.
CallStep ==
    \/ PreBackup
    \/ ValidateParse
    \/ ValidateCheck
    \/ Gate
    \/ ApplyOp
    \/ ApplyOpRaises
    \/ Commit
    \/ CommitRaises
    \/ PostBackup
SpecLive == Init /\ [][Next]_vars /\ WF_vars(CallStep)

\* Time passes while the handler is in use.
Tick ==
    /\ now < MaxClock
    /\ now' = now + 1
    /\ UNCHANGED <<handler, dry_run, text, out, change_history, pc, call,
                   loops, response, result, events>>
NextClock == Next \/ Tick
SpecClock == Init /\ [][NextClock]_vars

(***************************************************************************)
(* The parser and the validators on their own, one string at a time.       *)
(***************************************************************************)
\* Reference tokens: a column part, a row part and a tail.
Cols  == { "", "A", "ZZ", "XFD", "ABCD", "ab", "abcd" }
Rows  == { "", "0", "1", "07", "1048576", "1048577", "99999999" }
Tails == { "", "B", "B2", ".5", "$" }
Tokens == { c \o r \o t : c \in Cols, r \in Rows, t \in Tails }

\* Named-range lines "Create named range <name> for <c1><r1>:<c2><r2>".
Names == { "BaseRevenue", "Q1", "Set_formula" }
Cells == { <<"A", "2">>, <<"A", "5">>, <<"XFD", "1048576">> }
NamedLine(name, start, end) ==
    "Create named range " \o name \o " for " \o start[1] \o start[2]
        \o ":" \o end[1] \o end[2]
NamedLines ==
    { NamedLine(name, start, end) : name \in Names, start \in Cells, end \in Cells }

\* "Update cell <ref> to <value>" and "Set <ref-or-range> formula to <expr>"
\* lines: values that are numbers, words, a cell and a text holding " to ";
\* expressions that hold a range, " to " and the name of a sheet.
UpdateRefs  == { "A1", "ZZ99999999", "XFD1048576" }
Values      == { "7", "-1.5e3", "Revenue", "B2", "1 to 2" }
FormulaRefs == { "C1", "B2:B5" }
Exprs       == { "=SUM(A2:A5)", "=A2*1.1", "=A1 to 7", "='Update cell'!A1" }
UpdateLine(ref, value) == "Update cell " \o ref \o " to " \o value
FormulaLine(ref, expr) == "Set " \o ref \o " formula to " \o expr
UpdateLines  == { UpdateLine(ref, value) : ref \in UpdateRefs, value \in Values }
FormulaLines == { FormulaLine(ref, expr) : ref \in FormulaRefs, expr \in Exprs }

\* Change lines: for every trigger phrase a well-formed line, lines with an
\* address out of bounds and lines with a capture missing.
TestLines ==
    { "Update cell A1 to 7", "Update cell ZZ99999999 to Revenue",
      "Invalid instruction format", "Update cell to 7", "",
      "Copy range A1:A10 to B1", "Copy range A1:B99999999 to C1",
      "Copy range A1:A10 to B99999999", "Copy range ZZZZ1:A10 to B1",
      "Copy range A1 to B1",
      "Create named range Revenue for A2:A10", "Create named range for A2",
      "Create named range Revenue A2:A10",
      "Create named range Big for A1:B99999999",
      "Clear contents of A1:B99999999", "Clear contents of A1:B2",
      "Clear contents of A1",
      "Set column ABCD width to 5", "Set column A width to 15",
      "Set column A width",
      "Insert row at position 0", "Insert row at position 5",
      "Insert row at top",
      "Delete column B", "Delete column ABCD", "Delete column",
      "Format A1:B1 as header with bold text", "Format A1 as header",
      "Set A2:A5 number format to currency",
      "Set A2:A5 number format to percent",
      "Set A2 number format to currency",
      "Set B2:B5 formula to =A2*1.1", "Set formula B2",
      "Set C1 formula to =AVERAGE(A2:A5)", "Set AAAA1 formula to =1" }
    \cup NamedLines \cup UpdateLines \cup FormulaLines

InitParse ==
    /\ workbook = "open"
    /\ active_sheet = "current"
    /\ live = <<>>
    /\ disk = Some(<<>>)
    /\ backup_file = None
    /\ backup_path = FALSE
    /\ dry_run = FALSE
    /\ change_history = <<>>
    /\ pc = "idle"
    /\ callNo = 0
    /\ changes = <<>>
    /\ validated = <<>>
    /\ n = 0
    /\ cur = None
    /\ i = 0
    /\ response = None
    /\ result = None
    /\ events = <<>>
    /\ pre = [handler |-> H, change_history |-> <<>>]
    /\ restored = None
    /\ text \in Tokens \cup TestLines
    /\ out = None
    /\ now = ImportTime

\* Lines 96-129
ParseCellReference ==
    /\ out = None
    /\ text \in Tokens
    /\ out' = Some([of |-> "_parse_cell_reference",
                    ref |-> parse_cell_reference(text)])
    /\ UNCHANGED <<handler, dry_run, text, now, change_history, pc, call,
                   loops, response, result, events>>

\* Lines 169-205 and 405-510: the parser's outcome for the line and the
\* change validate_changes records for it.
ValidateLine ==
    /\ out = None
    /\ text \in TestLines
    /\ out' = Some([of |-> "validate_changes",
                    parse |-> call_parse_change_instruction(text),
                    change |-> validate_line(text)])
    /\ UNCHANGED <<handler, dry_run, text, now, change_history, pc, call,
                   loops, response, result, events>>

\* Lines 291-331: one iteration of the apply loop on the validated change.
ApplyLine ==
    /\ out # None
    /\ out[1].of = "validate_changes"
    /\ out[1].change.status = "valid"
    /\ LET calls == apply_calls(out[1].change)
       IN  out' = Some([of |-> "_apply_validated_changes",
                        parse |-> out[1].parse,
                        change |-> IF Last(calls).fn = "raise" THEN out[1].change
                                   ELSE [out[1].change EXCEPT !.status = "applied"],
                        calls |-> calls])
    /\ UNCHANGED <<handler, dry_run, text, now, change_history, pc, call,
                   loops, response, result, events>>

NextParse == ParseCellReference \/ ValidateLine \/ ApplyLine

SpecParse == InitParse /\ [][NextParse]_vars

(***************************************************************************)
(* Properties                                                              *)
(***************************************************************************)
Elems(q) == { q[m] : m \in DOMAIN q }
Happened(e) == e \in Elems(events)

\* An apply_changes call has just returned.
Returned == pc = "idle" /\ result # None

\* The changes of the current batch whose mutation is in document d.
BatchIn(d) ==
    IF d = None THEN {}
    ELSE { k \in 1..Len(validated) : <<callNo, k>> \in Elems(d[1]) }
Mutating == { k \in 1..Len(validated) : mutates(validated[k]) }
StatusAt(k) == validated[k].status
Statuses == { StatusAt(k) : k \in 1..Len(validated) }

\* The mutations of the first m changes of the batch, in batch order.
RECURSIVE MutationsUpTo(_)
MutationsUpTo(m) ==
    IF m = 0 THEN <<>>
    ELSE MutationsUpTo(m - 1) \o
         (IF mutates(validated[m]) THEN << <<callNo, m>> >> ELSE <<>>)
\* The change_history entries of the first m changes of the batch.
HistoryUpTo(m) ==
    [k \in 1..m |-> [call |-> callNo, idx |-> k, status |-> "applied"]]

\* C1: when an apply_changes call has returned, the persisted document holds
\* the mutation of every mutating change of that call's batch or of none.
C1_BatchAtomic ==
    Returned => BatchIn(disk) = {} \/ BatchIn(disk) = Mutating

\* C1 witness: a call returned after the second of two cell writes raised,
\* with the first already made, and the file is on disk.
C1_Witness ==
    /\ Returned /\ result = Some(FALSE) /\ disk # None
    /\ Len(validated) = 2
    /\ Mutating = {1, 2}
    /\ StatusAt(1) = "applied" /\ StatusAt(2) = "valid"

\* C2 (as claimed): after a rejection at the prompt the call has returned
\* false, the file is what it was when the call began and the reopened
\* workbook shows the same contents.
C2_RejectRoundTrip ==
    (Returned /\ Happened("reject")) =>
        /\ result = Some(FALSE)
        /\ disk = pre.handler.disk
        /\ workbook = "open"
        /\ live = pre.handler.live

\* C3: a batch goes on to the apply phase only if every validated change is
\* valid; with an error among them the call returns false and has made no
\* accessor or mutation call, applied nothing, left change_history alone,
\* asked for no confirmation and restored nothing.  A non-empty batch with
\* none goes on (to "would apply" in a dry run).
C3_ErrorBlocksBatch ==
    /\ ("error" \in Statuses) =>
          /\ pc \in {"validate", "check", "idle"}
          /\ Elems(events) \subseteq {"backup", "save", "copy_backup", "validate"}
          /\ "applied" \notin Statuses
          /\ change_history = pre.change_history
          /\ Returned => result = Some(FALSE) /\ live = pre.handler.live
    /\ (Returned /\ changes # <<>> /\ Happened("validate")
           /\ "error" \notin Statuses) =>
          IF dry_run THEN result = Some(TRUE) ELSE Happened("apply")

\* C3 witness: a returned call whose second line failed validation after a
\* valid first line.
C3_Witness ==
    /\ Returned /\ Len(validated) = 2
    /\ StatusAt(1) = "valid" /\ StatusAt(2) = "error"
    /\ ~dry_run

\* C4: a call that returns true for a non-empty batch outside a dry run has
\* applied every change, none of which failed validation, nothing raised,
\* the human accepted, and the file holds the whole batch's mutations on
\* top of what the document held before.
C4_TrueMeansAll ==
    (Returned /\ result = Some(TRUE) /\ changes # <<>> /\ ~dry_run) =>
        /\ Len(validated) = Len(changes)
        /\ \A k \in 1..Len(validated) :
              StatusAt(k) = "applied" /\ validated[k].error = None
        /\ ~Happened("raise") /\ ~Happened("reject")
        /\ response # None /\ lower(response[1]) = "y"
        /\ Happened("commit")
        /\ disk = Some(pre.handler.live \o MutationsUpTo(Len(validated)))

\* C4 witness: a two-line batch returned true outside a dry run.
C4_Witness ==
    Returned /\ result = Some(TRUE) /\ ~dry_run /\ Len(changes) = 2

\* What the source's parser returns for each line of the model, and the
\* lines whose parse or address validation fails in the source.
Expected(line) ==
    CASE line = "Update cell A1 to 7" ->
             Some(ExcelChange("update", "A1", VFloat("7")))
      [] line = "Set A2:A5 number format to percent" ->
             Some(ExcelChange("number_format", "A2:A5", VNone))
      [] line = "Update cell ZZ99999999 to Revenue" ->
             Some(ExcelChange("update", "ZZ99999999", VStr("Revenue")))
      [] line = "Invalid instruction format" -> None
BadLines == { "Update cell ZZ99999999 to Revenue",
              "Invalid instruction format" }
\* The model's parser and address checks agree with them (evaluated before
\* the first call only).
ParserAgrees ==
    callNo = 0 =>
        \A line \in Lines :
            /\ parse_change_instruction(line) = Expected(line)
            /\ (line \in BadLines) <=>
                   \/ Expected(line) = None
                   \/ ~validate_target(Expected(line)[1].target).ok

\* What validate_changes records for a line.
DerivedFrom(c, line) ==
    LET p == Expected(line)
    IN  IF p = None
        THEN /\ c.status = "error"
             /\ c.error = Some("Invalid instruction format")
        ELSE /\ c.operation = p[1].operation
             /\ c.target = p[1].target
             /\ c.value = p[1].value

\* C5: validate_changes yields one change per line taken, in line order:
\* after n lines there are n changes (n - 1 while the n-th is being
\* checked), the k-th from line k, and all lines are taken before the
\* batch is judged.
C5_OnePerLine ==
    /\ ParserAgrees
    /\ Len(validated) = (IF pc = "check" THEN n - 1 ELSE n)
    /\ \A k \in 1..Len(validated) : DerivedFrom(validated[k], changes[k])
    /\ (pc \in {"apply", "prompt", "commit", "post_backup"}
           \/ (Returned /\ Happened("validate"))) => n = Len(changes)

\* C5 witness: both lines of a batch were validated, the first of them
\* unparseable, the second a valid change.
C5_Witness ==
    /\ Len(changes) = 2 /\ Len(validated) = 2
    /\ validated[1] = invalid_instruction
    /\ StatusAt(2) = "valid"

\* A line whose parse or address validation fails.
Fails(line) == line \in BadLines

\* C6: a line that fails to parse or whose address is invalid becomes a
\* change with status error and a message, nothing is raised while lines
\* are validated, and the lines after it are validated all the same.
C6_ErrorsRecorded ==
    /\ ParserAgrees
    /\ \A k \in 1..Len(validated) :
          Fails(changes[k]) =>
              /\ StatusAt(k) = "error"
              /\ validated[k].error # None
    /\ pc \in {"validate", "check"} => ~Happened("raise")
    /\ (Returned /\ Happened("validate")) => Len(validated) = Len(changes)

\* C6 witness: the line after one with an invalid address was validated.
C6_Witness ==
    /\ Len(validated) = 2
    /\ StatusAt(1) = "error"
    /\ validated[1].error = Some("Invalid row number: 99999999")
    /\ StatusAt(2) = "valid"

\* C7: while a batch is applied, the changes applied so far are exactly the
\* first i of the batch, the workbook holds their mutations in batch order
\* and change_history has gained them in that order.
C7_AppliedInOrder ==
    /\ \A k \in 1..Len(validated) :
          (StatusAt(k) = "applied") <=> (k <= i)
    /\ change_history = pre.change_history \o HistoryUpTo(i)
    /\ pc \in {"apply", "prompt", "commit", "post_backup"} =>
          live = pre.handler.live \o MutationsUpTo(i)

\* C7 witness: the first of two cell writes is applied, the second is not.
C7_Witness ==
    /\ pc = "apply" /\ Len(validated) = 2 /\ Mutating = {1, 2}
    /\ StatusAt(1) = "applied" /\ StatusAt(2) = "valid"

\* The status of the k-th change object of the current call.
StatusOf(k) ==
    IF k <= Len(validated) THEN validated[k].status
    ELSE IF cur # None /\ k = Len(validated) + 1 THEN cur[1].status
    ELSE "absent"
Moves == { <<"absent", "pending">>, <<"absent", "error">>,
           <<"pending", "valid">>, <<"pending", "error">>,
           <<"valid", "applied">> }

\* C8: within a call a change's status moves only pending -> valid,
\* pending -> error or valid -> applied (a line that does not parse is
\* created with status error), and an entry of change_history stays applied.
C8_StatusLifecycle ==
    [][ /\ (callNo' = callNo /\ pc # "idle") =>
              \A k \in 1..(Len(changes) + 1) :
                  \/ StatusOf(k)' = StatusOf(k)
                  \/ <<StatusOf(k), StatusOf(k)'>> \in Moves
        /\ \A m \in 1..Len(change_history) :
              /\ m <= Len(change_history')
              /\ change_history'[m].status = "applied"
      ]_vars

\* C8 witness: a second call has a change with status error while the
\* changes applied by the first call are in change_history.
C8_Witness ==
    /\ callNo = 2
    /\ "error" \in Statuses
    /\ Len(change_history) = 2

\* C9: a call with no change lines returns true and has done nothing: no
\* event, and the handler, files and change_history are as they were.
C9_EmptyIsNoOp ==
    (Returned /\ changes = <<>>) =>
        /\ result = Some(TRUE)
        /\ events = <<>>
        /\ H = pre.handler
        /\ change_history = pre.change_history
        /\ validated = <<>> /\ response = None

\* C9 witness: an empty call returned after an earlier call had committed
\* a change.
C9_Witness ==
    /\ Returned /\ changes = <<>> /\ callNo = 2
    /\ live # <<>> /\ backup_path

\* The pre-apply backup was attempted and failed.
PreBackupFailed ==
    /\ events # <<>> /\ events[1] = "backup"
    /\ ~(Len(events) >= 3 /\ events[3] = "copy_backup")

\* C10: when the pre-apply backup of a non-empty batch fails, the call
\* returns false at once: nothing is validated, applied or asked, and
\* change_history and the workbook are as they were.
C10_BackupFailureAborts ==
    (changes # <<>> /\ pre.handler.disk # None /\ PreBackupFailed) =>
        /\ pc = "idle"
        /\ Elems(events) \subseteq {"backup", "save"}
        /\ validated = <<>> /\ n = 0 /\ i = 0 /\ response = None
        /\ change_history = pre.change_history
        /\ Returned => result = Some(FALSE) /\ live = pre.handler.live

\* C10 witness: the copy of the pre-apply backup failed in a second call.
C10_Witness ==
    /\ Returned /\ callNo = 2 /\ changes # <<>>
    /\ events = <<"backup", "save">>
    /\ result = Some(FALSE)

\* The events of the call from the last occurrence of e on (empty if none).
RECURSIVE From(_, _)
From(q, e) ==
    IF q = <<>> THEN <<>>
    ELSE LET rest == From(Tail(q), e)
         IN  IF rest # <<>> THEN rest
             ELSE IF Head(q) = e THEN q ELSE <<>>
Count(q, e) == Cardinality({ m \in DOMAIN q : q[m] = e })

\* C11: a dry-run call on a non-empty batch whose every line validated
\* returns true, has called no range accessor and made no mutation, leaves
\* the live and the persisted contents and change_history as they were,
\* leaves every change at status valid, and neither prompts nor restores.
C11_PreviewTouchesNothing ==
    (Returned /\ dry_run /\ changes # <<>> /\ Len(validated) = Len(changes)
        /\ "error" \notin Statuses) =>
        /\ result = Some(TRUE)
        /\ Elems(events) \cap {"apply", "range", "mutate", "prompt",
                                "restore", "commit"} = {}
        /\ live = pre.handler.live
        /\ disk = pre.handler.disk
        /\ Statuses = {"valid"}
        /\ change_history = pre.change_history

\* C11 witness: a dry-run call returned for a batch of two valid lines, one
\* of which would write a cell.
C11_Witness ==
    /\ Returned /\ dry_run /\ Len(validated) = 2
    /\ Statuses = {"valid"} /\ Mutating # {}
    /\ result = Some(TRUE)

\* The call ended because a change raised while being applied.
ApplyFailed ==
    Returned /\ Happened("apply") /\ Happened("raise") /\ ~Happened("prompt")

Restore == From(events, "restore")
RestoreSteps == <<"restore", "close", "remove", "copy", "open">>
CopyFailed == <<"restore", "close", "remove">>
ReopenFailed == <<"restore", "close", "remove", "copy">>

C15_FailedRestore ==
    /\ restored # None =>
          LET r == restored[1]
          IN  /\ ~(r.h.backup_path /\ r.h.backup_file # None) =>
                    /\ ~r.ret /\ r.ev = <<"restore">>
                    /\ H = r.h
              /\ r.ev = CopyFailed =>
                    /\ ~r.ret
                    /\ disk = None /\ workbook = "closed"
                    /\ backup_file = r.h.backup_file
              /\ r.ret <=> r.ev = RestoreSteps
    /\ (Returned /\ Restore = CopyFailed) =>
          /\ result = Some(FALSE)
          /\ disk = None /\ workbook = "closed"
    /\ (Returned /\ Restore = <<"restore">>) =>
          /\ result = Some(FALSE)
          /\ H = pre.handler

\* C15 witness: with the batch of an accepted call in the workbook and the
\* backup file deleted by somebody else, a restore returned False and left
\* everything alone.
C15_Witness ==
    /\ restored # None /\ ~restored[1].ret
    /\ backup_path /\ backup_file = None
    /\ workbook = "open" /\ live # <<>> /\ disk = Some(live)

\* What _parse_cell_reference made of the token, what the parser made of the
\* line and the change validate_changes recorded for it.
RefDone  == out # None /\ out[1].of = "_parse_cell_reference"
LineDone == out # None /\ out[1].of = "validate_changes"

\* Reading a reference as the document's limits are stated: a row number, a
\* column label, or upper-case letters followed by digits and nothing else.
RowOk(row) == int(row) >= 1 /\ int(row) <= 1048576
ColOk(col) == Len(col) <= 3
LettersEnd(t) == RunEnd(t, 1, UpperChars)
WholeCell(t) ==
    /\ LettersEnd(t) > 1 /\ LettersEnd(t) <= Len(t)
    /\ AllIn(SubSeq(t, LettersEnd(t), Len(t)), DigitChars)
CellCol(t) == SubSeq(t, 1, LettersEnd(t) - 1)
CellRow(t) == SubSeq(t, LettersEnd(t), Len(t))
InLimits(t) ==
    IF isdigit(t) THEN RowOk(t)
    ELSE IF isalpha(t) THEN ColOk(t)
    ELSE WholeCell(t) /\ ColOk(CellCol(t)) /\ RowOk(CellRow(t))

\* C16 (as claimed): for a token without a colon, _parse_cell_reference
\* raises when the token is a row number out of [1, 1048576], a column
\* label of more than 3 letters, or a cell whose column or row is out of
\* these limits; it returns exactly (column, row) for a cell within them;
\* and it raises for every other token that is not, as a whole, upper-case
\* letters followed by digits.
C16_SingleReferences ==
    (RefDone /\ ~Contains(text, ":")) =>
        LET r == out[1].ref
        IN  /\ (isdigit(text) /\ ~RowOk(text)) => ~r.ok
            /\ (isalpha(text) /\ ~ColOk(text)) => ~r.ok
            /\ WholeCell(text) =>
                   IF ColOk(CellCol(text)) /\ RowOk(CellRow(text))
                   THEN r = Ok(<<CellCol(text), CellRow(text)>>)
                   ELSE ~r.ok
            /\ (~isdigit(text) /\ ~isalpha(text) /\ ~WholeCell(text)) => ~r.ok

\* The references a target holds: the endpoints of its range, and for a
\* copy those of the source range and the destination.
Endpoints(target) ==
    IF Contains(target, " to ")
    THEN Elems(split(split(target, " to ")[1], ":"))
            \cup { Last(split(target, " to ")) }
    ELSE Elems(split(target, ":"))

\* C17 (as claimed): the change recorded for a line that parses is valid
\* exactly when every reference of its target is within the limits, and is
\* an error otherwise; the target is the one parsed, never altered.
C17_ValidMeansInLimits ==
    (LineDone /\ out[1].parse.change # None) =>
        LET c == out[1].change
        IN  /\ c.target = out[1].parse.change[1].target
            /\ c.status \in {"valid", "error"}
            /\ c.status = "valid" <=>
                   \A e \in Endpoints(c.target) : InLimits(e)

\* C18 (as claimed): for a line with "Create named range" that reaches that
\* branch and does not match "range <name> for <range>", the call of
\* _parse_change_instruction ends in an exception, not in a returned None.
C18_MalformedNamedRangeRaises ==
    (LineDone /\ parse_body(text) =
                     Raises("Invalid named range format: " \o text)) =>
        out[1].parse.r = "raise"

\* The trigger phrases of the parser's branches.
Triggered(change) ==
    \/ Contains(change, "Update cell")
    \/ Contains(change, "Format") /\ Contains(change, "as header")
    \/ Contains(change, "Set") /\ Contains(change, "number format")
    \/ Contains(change, "Set") /\ Contains(change, "formula")
    \/ Contains(change, "Copy range")
    \/ Contains(change, "Set column") /\ Contains(change, "width")
    \/ Contains(change, "Clear contents")
    \/ Contains(change, "Insert row")
    \/ Contains(change, "Delete column")
    \/ Contains(change, "Create named range")

\* C19: for a line with no trigger phrase, and for a line whose branch
\* finds no match or raises, the call of _parse_change_instruction returns
\* None and validate_changes records a change with status error and error
\* "Invalid instruction format".
C19_UnparsedIsInvalidFormat ==
    LineDone =>
        /\ ~Triggered(text) => parse_body(text) = Returns(None)
        /\ (parse_body(text).r = "raise" \/ parse_body(text) = Returns(None)) =>
              /\ out[1].parse = Returns(None)
              /\ out[1].change.status = "error"
              /\ out[1].change.error = Some("Invalid instruction format")

\* C19 witness: a header-format line without a range, whose missing match
\* makes the branch raise.
C19_Witness ==
    /\ LineDone /\ text = "Format A1 as header"
    /\ parse_body(text) = NoneMatchGroup
    /\ out[1].change.status = "error"

\* C20: a change that validate_changes has recorded carries an error
\* message, which is not empty, exactly when its status is error, up to
\* and after the return of the call; for the line
\* "Update cell ZZ99999999 to Revenue" the message is the row-bound message
\* of the address check.
C20_ErrorIffStatusError ==
    /\ \A k \in 1..Len(validated) :
          /\ validated[k].error # None <=> validated[k].status = "error"
          /\ validated[k].error # None => validated[k].error[1] # ""
          /\ changes[k] = "Update cell ZZ99999999 to Revenue" =>
                validated[k].error = Some("Invalid row number: 99999999")
    /\ cur # None => cur[1].error = None /\ cur[1].status = "pending"

\* C20 witness: a returned call recorded the row-bound error after a valid
\* change.
C20_Witness ==
    /\ Returned /\ Len(validated) = 2
    /\ StatusAt(1) = "valid" /\ validated[1].error = None
    /\ validated[2].error = Some("Invalid row number: 99999999")

AppliedLine == out # None /\ out[1].of = "_apply_validated_changes"

\* C21 (as claimed): every line "Create named range <name> for
\* <c1><r1>:<c2><r2>" parses to a named_range change with that target and
\* that name as value, and applying the change makes one names.add call,
\* with the name and "=Sheet1!$<c1>$<r1>:$<c2>$<r2>".
C21_NamedRange ==
    \A name \in Names, start \in Cells, end \in Cells :
        text = NamedLine(name, start, end) =>
            /\ (LineDone \/ AppliedLine) =>
                  out[1].parse =
                      Returns(Some(ExcelChange("named_range",
                                               relative_ref(start, end),
                                               VStr(name))))
            /\ AppliedLine =>
                  /\ Count([k \in DOMAIN out[1].calls |-> out[1].calls[k].fn],
                            "names.add") = 1
                  /\ Last(out[1].calls) =
                        Call("names.add",
                             <<name, "=Sheet1!" \o absolute_ref(start, end)>>)

\* The call began with a successful backup, taken before the first line was
\* validated.
BackupFirst ==
    /\ Len(events) >= 3
    /\ SubSeq(events, 1, 3) = <<"backup", "save", "copy_backup">>

HumanAnswers == (pc = "prompt") ~> (pc # "prompt")

\* C23: a call in progress reaches its return or the prompt; it leaves the
\* prompt only by the end of input(), so a prompt that is never answered is
\* never left; and if every prompt is answered, every call returns.
C23_ReturnsIfAnswered ==
    /\ (pc # "idle") ~> (pc = "idle" \/ pc = "prompt")
    /\ [][(pc = "prompt" /\ pc' # "prompt") =>
              /\ ~Happened("prompt")
              /\ "prompt" \in Elems(events')
              /\ response' # None \/ "raise" \in Elems(events')]_vars
    /\ HumanAnswers => ((pc # "idle") ~> (pc = "idle"))

\* C23 witness: a second call waits at the prompt with its batch applied.
C23_Witness ==
    /\ pc = "prompt" /\ callNo = 2 /\ response = None
    /\ Statuses = {"applied"}

\* The human has answered the prompt of the current call.
Answered == response # None
SaidY == response # None /\ lower(response[1]) = "y"

\* C24 (as claimed): once an answered call has returned, the document was
\* saved by the commit step exactly if the answer, lower-cased, is "y";
\* after any other answer a restore was started and the call returned false.
C24_CommittedIffY ==
    Returned /\ Answered =>
        /\ Happened("commit") <=> SaidY
        /\ ~SaidY => /\ Happened("reject")
                     /\ From(events, "reject")[2] = "restore"
                     /\ result = Some(FALSE)

\* C24 (amended): the commit save is attempted exactly if the answer,
\* lower-cased, is "y" (the call is then at the save, or has made it, or the
\* save raised and the call returned false), and only then is the document
\* saved by the commit step; after any other answer restore_from_backup is
\* called at once, nothing is saved and the call returns false.
C24_SaveAttemptedIffY ==
    /\ SaidY =>
           /\ Happened("accept") /\ ~Happened("reject")
           /\ \/ pc = "commit"
              \/ Happened("commit")
              \/ Returned /\ Happened("raise") /\ result = Some(FALSE)
    /\ Answered /\ ~SaidY =>
           /\ Returned /\ result = Some(FALSE)
           /\ Happened("reject") /\ ~Happened("accept")
           /\ From(events, "reject")[2] = "restore"
           /\ ~Happened("commit")
    /\ pc = "commit" \/ Happened("commit") => SaidY
    /\ Happened("commit") /\ pc = "post_backup" => disk = Some(live)

\* C24 witness: "yes" is a rejection: the batch was applied, the restore ran
\* to its end and the call returned false.
C24_Witness ==
    /\ Returned /\ response = Some("yes") /\ result = Some(FALSE)
    /\ Mutating # {} /\ Restore = RestoreSteps /\ BatchIn(disk) = {}

\* The change the parse step just taken made: the parsed one, or the one
\* recorded for a line that does not parse.
Parsing == n' = n + 1
NewChange == IF cur' # None THEN cur'[1] ELSE validated'[Len(validated')]

\* C25 (as claimed): the change made by a parse step carries the time of that
\* step as its timestamp (so changes parsed at different times differ in it),
\* and the timestamps of a batch never decrease in parse order.
C25_TimestampIsParseTime ==
    [][/\ Parsing => NewChange.timestamp = now
       /\ \A j, k \in 1..Len(validated') :
              j <= k => validated'[j].timestamp <= validated'[k].timestamp]_vars

\* The text after the last " to " of a line that holds one.
AfterLastTo(line) ==
    LET k == CHOOSE k \in 5..(Len(line) + 1) :
                 /\ SubSeq(line, k - 4, k - 1) = " to "
                 /\ ~Contains(SubSeq(line, k, Len(line)), " to ")
    IN  SubSeq(line, k, Len(line))

\* C26 (as claimed): "Update cell <ref> to <value>" parses to an update
\* whose target is <ref>, the first cell reference of the line, and whose
\* value is the text after the last " to ", a float when float() reads it
\* and a string otherwise; "Set <ref-or-range> formula to <expr>" parses to
\* a formula whose target is <ref-or-range> and whose value is the text
\* after the last " to ", as a string.
C26_UpdateAndFormula ==
    LineDone =>
        /\ \A ref \in UpdateRefs, value \in Values :
              text = UpdateLine(ref, value) =>
                  out[1].parse =
                      Returns(Some(ExcelChange("update", ref,
                          IF IsFloatLiteral(AfterLastTo(text))
                          THEN VFloat(AfterLastTo(text))
                          ELSE VStr(AfterLastTo(text)))))
        /\ \A ref \in FormulaRefs, expr \in Exprs :
              text = FormulaLine(ref, expr) =>
                  out[1].parse =
                      Returns(Some(ExcelChange("formula", ref,
                                               VStr(AfterLastTo(text)))))

\* What the call did from the exception (or the failed change) onwards.
Raised == Happened("raise")
AfterRaise == From(events, "raise")

\* C27: every call that has ended returned a boolean; one in which an
\* exception reached apply_changes (from the document path, the prompt or
\* the commit save) or a change failed returned false, having called
\* restore_from_backup next if a backup path was recorded and not otherwise;
\* a backup, a validation or a restore that failed made the call return
\* false as well.
C27_FailuresReturnFalse ==
    Returned =>
        /\ result[1] \in BOOLEAN
        /\ Raised =>
              /\ result = Some(FALSE)
              /\ IF backup_path
                 THEN Len(AfterRaise) >= 2 /\ AfterRaise[2] = "restore"
                 ELSE AfterRaise = <<"raise">>
        /\ (Happened("backup") /\ ~Happened("copy_backup")) => result = Some(FALSE)
        /\ "error" \in Statuses => result = Some(FALSE)
        /\ (Restore # <<>> /\ Restore # RestoreSteps) => result = Some(FALSE)

\* C27 witness: input() raised at the prompt of a call with a backup; the
\* restore ran to its end and the call returned false.
C27_Witness ==
    /\ Returned /\ result = Some(FALSE) /\ backup_path
    /\ Happened("prompt") /\ response = None
    /\ AfterRaise = <<"raise">> \o RestoreSteps

\* input() has been called in the current call: it is waiting, or it ended.
PromptIssued == pc = "prompt" \/ Happened("prompt")
\* The events of the call up to the one at which e first happened.
UpTo(q, e) == SubSeq(q, 1, CHOOSE m \in DOMAIN q :
                               q[m] = e /\ \A l \in 1..(m - 1) : q[l] # e)

\* C28: input() is called at most once in a call, and only outside a dry
\* run, for a batch that is not empty, after a pre-apply backup that did not
\* fail, with every line validated without error and every change applied,
\* none having raised; the commit save is made only after an accepting answer.
C28_PromptOnceAfterApply ==
    /\ Count(events, "prompt") <= 1
    /\ pc = "prompt" => ~Happened("prompt")
    /\ PromptIssued =>
           /\ ~dry_run
           /\ changes # <<>>
           /\ Len(validated) = Len(changes) /\ i = Len(validated)
           /\ Statuses = {"applied"}
           /\ \A k \in 1..Len(validated) : validated[k].error = None
           /\ Happened("backup") => Happened("copy_backup")
           /\ LET before == IF Happened("prompt") THEN UpTo(events, "prompt")
                            ELSE events
              IN  "raise" \notin Elems(before) /\ "restore" \notin Elems(before)
    /\ (pc \in {"commit", "post_backup"} \/ Happened("commit")) =>
           /\ Happened("accept") /\ SaidY
           /\ Happened("commit") =>
                  Len(UpTo(events, "accept")) < Len(UpTo(events, "commit"))

\* C28 witness: a call returned after one prompt, an accepting answer and
\* the commit save of a batch of two applied changes.
C28_Witness ==
    /\ Returned /\ Count(events, "prompt") = 1 /\ Happened("commit")
    /\ Len(validated) = 2 /\ Statuses = {"applied"}
    /\ response = Some("Y")

\* The mutations a document holds.
Doc(d) == IF d = None THEN {} ELSE Elems(d[1])
\* The call has returned after a rejection or after a change that raised.
RolledBack == Returned /\ (Happened("reject") \/ ApplyFailed)

\* C29 (as claimed): when a call has returned after a rejection or after a
\* change that raised, the file holds none of that call's mutations, and
\* whatever is called on the handler next (apply_changes, create_backup,
\* cleanup) writes none of them to it.
C29_RolledBackNeverPersisted ==
    [][RolledBack =>
           /\ \A m \in Doc(disk) : m[1] # callNo
           /\ \A m \in Doc(disk') : m[1] # callNo]_vars

\* The positions in its batch of the entries the current call has put in
\* change_history, in the order of the entries.
Own == SelectSeq(change_history, LAMBDA e : e.call = callNo)
OwnIdx == [m \in DOMAIN Own |-> Own[m].idx]

\* C30: no step removes, alters or reorders an entry of change_history (it
\* only grows at its end); every entry has status applied; the entries of
\* a call in progress or just returned are its changes with status applied,
\* once each, in the order in which they were applied; and after a rollback (a restore after a
\* failed change or a rejection) they are all still there.
C30_HistoryAppendOnly ==
    /\ [][/\ Len(change_history') >= Len(change_history)
          /\ SubSeq(change_history', 1, Len(change_history)) = change_history
          /\ Len(change_history') > Len(change_history) =>
                /\ Len(change_history') = Len(change_history) + 1
                /\ i' = i + 1
                /\ change_history'[Len(change_history')].call = callNo
                /\ validated'[change_history'[Len(change_history')].idx].status
                       = "applied"]_vars
    /\ [](\A m \in DOMAIN change_history : change_history[m].status = "applied")
    /\ []((pc # "idle" \/ Returned) =>
              /\ Elems(OwnIdx) =
                     { k \in 1..Len(validated) : StatusAt(k) = "applied" }
              /\ Len(OwnIdx) = Cardinality(Elems(OwnIdx))
              /\ OwnIdx = [m \in 1..i |-> m])
    /\ []((Returned /\ Happened("restore")) =>
              /\ Len(change_history) = Len(pre.change_history) + i
              /\ \A k \in 1..i : StatusAt(k) = "applied")

\* C30 witness: a call that applied two changes was rejected and restored;
\* its two entries are in change_history, after the entry of an earlier
\* call.
C30_Witness ==
    /\ Returned /\ Happened("reject") /\ Restore = RestoreSteps
    /\ callNo = 2 /\ i = 2 /\ live = pre.handler.live
    /\ Len(change_history) = 3 /\ change_history[1].call = 1
    /\ OwnIdx = <<1, 2>>

====
